---- MODULE Spec2Model ----
(***************************************************************************)
(* Model of Dup_Remover.py: the per-line classifier sam_info, the          *)
(* accumulator loop rmdup.inter_sam and the __main__ driver.               *)
(*                                                                         *)
(* A line of the SAM file is the tuple of its tab-separated fields; a      *)
(* field is a tuple of one-character strings.  The newline that ends the   *)
(* line is the last character of the last field, as it is in the string    *)
(* that "for line in sam" yields.                                          *)
(***************************************************************************)
EXTENDS Integers, Sequences, FiniteSets, TLC

VARIABLES
    sam,         \* global sam (line 253): the file named on the command line
    sortOpt,     \* args.sort
    ID,          \* global ID (line 254): the -l/--length option
    lines,       \* the file inter_sam iterates (args.sam at the call)
    pc,          \* position of the driver
    idx,         \* number of lines of the iterated file consumed so far
    COUNT,       \* global COUNT (line 255)
    NR,          \* global NR (line 256)
    place,       \* global place (line 258): pairs in insertion order
    bestScore,   \* local bestScore of inter_sam (line 170)
    log,         \* the records written by logger.error
    classified,  \* history: the sam_info object built for each record line
    output,      \* the lines written to the _deduped.sam file
    call,        \* unit specification: the method applied
    arg,         \* unit specification: its input
    ret          \* unit specification: its result

vars == <<sam, sortOpt, ID, lines, pc, idx, COUNT, NR, place, bestScore,
          log, classified, output, call, arg, ret>>

----------------------------------------------------------------------------
(* Characters and Python built-ins                                         *)

NL == "\n"

Digits == {"0", "1", "2", "3", "4", "5", "6", "7", "8", "9"}

\* the value of a decimal digit character
DigitVal(c) ==
    CASE c = "0" -> 0 [] c = "1" -> 1 [] c = "2" -> 2 [] c = "3" -> 3
      [] c = "4" -> 4 [] c = "5" -> 5 [] c = "6" -> 6 [] c = "7" -> 7
      [] c = "8" -> 8 [] c = "9" -> 9

\* ord(c) for the characters the model's inputs are drawn from
Ord(c) ==
    CASE c = NL -> 10
      [] c = "!" -> 33 [] c = "*" -> 42 [] c = "+" -> 43 [] c = "5" -> 53
      [] c = ":" -> 58 [] c = "?" -> 63 [] c = "I" -> 73 [] c = "S" -> 83
      [] c = "q" -> 113

\* int(s) raises ValueError unless s is a decimal literal
IntOk(s) == Len(s) > 0 /\ \A i \in 1..Len(s) : s[i] \in Digits

RECURSIVE IntVal(_)
IntVal(s) ==
    IF Len(s) = 0 THEN 0
    ELSE 10 * IntVal(SubSeq(s, 1, Len(s) - 1)) + DigitVal(s[Len(s)])

\* (flag & b) == b for a power of two b and flag >= 0
BitSet(flag, b) == (flag \div b) % 2 = 1

\* str.strip("\n")
RECURSIVE StripNL(_)
StripNL(s) ==
    IF Len(s) = 0 THEN s
    ELSE IF s[1] = NL THEN StripNL(Tail(s))
    ELSE IF s[Len(s)] = NL THEN StripNL(SubSeq(s, 1, Len(s) - 1))
    ELSE s

\* line.startswith('@')
StartsWithAt(line) == Len(line) >= 1 /\ Len(line[1]) >= 1 /\ line[1][1] = "@"

\* results of a call: a value, or an exception that propagates
Ok(v) == [raised |-> FALSE, exc |-> "", val |-> v]
Raise(e) == [raised |-> TRUE, exc |-> e, val |-> 0]

\* Python's None and int as the values of a score
NoneScore == [isNone |-> TRUE, n |-> 0]
IntScore(n) == [isNone |-> FALSE, n |-> n]

----------------------------------------------------------------------------
(* class sam_info                                                          *)

\* sam_info.soft_check (lines 88-96)
soft_check(align) ==
    IF Len(align) < 2 THEN Raise("IndexError")
    ELSE IF align[2] = "S" \/ align[2] = "s" THEN
        IF IntOk(<<align[1]>>) THEN Ok(IntVal(<<align[1]>>))
        ELSE Raise("ValueError")
    ELSE IF Len(align) < 3 THEN Raise("IndexError")
    ELSE IF align[3] = "S" \/ align[3] = "s" THEN
        IF IntOk(SubSeq(align, 1, 2)) THEN Ok(IntVal(SubSeq(align, 1, 2)))
        ELSE Raise("ValueError")
    ELSE Ok(0)

\* sam_info.convert_phred (lines 98-106): the return is inside the loop
convert_phred(line) ==
    IF Len(line) < 11 THEN Raise("IndexError")
    ELSE LET qual == line[11] IN
         IF Len(qual) = 0 THEN Ok(NoneScore)
         ELSE Ok(IntScore(Ord(qual[1]) - 33))

\* sam_info.start_pos (lines 108-116)
start_pos(line) ==
    IF Len(line) < 4 THEN Raise("IndexError")
    ELSE IF ~IntOk(line[4]) THEN Raise("ValueError")
    ELSE IF Len(line) < 6 THEN Raise("IndexError")
    ELSE LET soft == soft_check(line[6]) IN
         IF soft.raised THEN soft
         ELSE IF soft.val > 0 THEN Ok(IntVal(line[4]) - soft.val)
         ELSE Ok(IntVal(line[4]))

\* the character class of seq (line 257): [ACGTN^-]
IdChars == {"A", "C", "G", "T", "N", "^", "-"}

\* the end of the run of IdChars that starts at s[i]
RECURSIVE RunEnd(_, _)
RunEnd(s, i) ==
    IF i < Len(s) /\ s[i + 1] \in IdChars THEN RunEnd(s, i + 1) ELSE i

\* grep -o '[ACGTN^-]\{n,\}': the leftmost-longest matches from s[i] on
RECURSIVE GrepO(_, _, _)
GrepO(s, i, n) ==
    IF i > Len(s) THEN <<>>
    ELSE IF s[i] \notin IdChars THEN GrepO(s, i + 1, n)
    ELSE LET j == RunEnd(s, i) IN
         IF j - i + 1 >= n THEN <<SubSeq(s, i, j)>> \o GrepO(s, j + 1, n)
         ELSE GrepO(s, j + 1, n)

\* the standard output of grep -o: each match followed by a newline
RECURSIVE JoinLines(_)
JoinLines(ms) ==
    IF Len(ms) = 0 THEN <<>> ELSE ms[1] \o <<NL>> \o JoinLines(Tail(ms))

\* cut -f 1: the first field, without the line's newline
CutF1(line) ==
    IF Len(line) = 0 THEN <<>>
    ELSE IF Len(line) = 1 THEN StripNL(line[1])
    ELSE line[1]

\* cut -f 1 | grep -v '^@': the names of the non-header lines of a file
RECURSIVE HeadNames(_)
HeadNames(file) ==
    IF Len(file) = 0 THEN <<>>
    ELSE IF StartsWithAt(file[1]) THEN HeadNames(Tail(file))
    ELSE <<CutF1(file[1])>> \o HeadNames(Tail(file))

\* the pipeline of line 129 on file f with NR = co and the pattern length n;
\* found is FALSE when the last grep exits non-zero (check_output raises)
Pipeline(f, co, n) ==
    LET names == HeadNames(f)
        picked == IF co \in 1..Len(names) THEN names[co] ELSE <<>>
        ms == GrepO(picked, 1, n)
    IN [found |-> Len(ms) > 0, out |-> JoinLines(ms)]

\* barcode_get with COUNT incremented before the error is logged
barcode_get_late_log(line, f, co, n) ==
    LET p == Pipeline(f, co, n) IN
    [BC |-> IF p.found THEN StripNL(p.out) ELSE <<>>,
     logs |-> IF p.found THEN <<>>
              ELSE <<[kind |-> "noid", co |-> co + 1, head |-> line[1]]>>,
     COUNT |-> co + 1]

\* sam_info.barcode_get (lines 118-136): reads the globals sam, COUNT, seq
barcode_get(line, f, co, n) ==
    LET p == Pipeline(f, co, n) IN
    [BC |-> IF p.found THEN StripNL(p.out) ELSE <<>>,
     logs |-> IF p.found THEN <<>>
              ELSE <<[kind |-> "noid", co |-> co, head |-> line[1]]>>,
     COUNT |-> co + 1]

\* bit_check with the test of the secondary-alignment bit left out
bit_check_no256(line, co) ==
    IF ~IntOk(line[2]) THEN Raise("ValueError")
    ELSE LET flag == IntVal(line[2])
             uniq == ~BitSet(flag, 4)
         IN Ok([strand |-> IF BitSet(flag, 16) THEN "-" ELSE "+",
                umap |-> uniq,
                logs |-> IF uniq THEN <<>>
                         ELSE <<[kind |-> "unmapped", co |-> co,
                                 head |-> line[1]]>>])

\* sam_info.bit_check (lines 138-152): umap is "" (TRUE) or None (FALSE)
bit_check(line, co) ==
    IF ~IntOk(line[2]) THEN Raise("ValueError")
    ELSE LET flag == IntVal(line[2])
             uniq == ~BitSet(flag, 4) /\ ~BitSet(flag, 256)
         IN Ok([strand |-> IF BitSet(flag, 16) THEN "-" ELSE "+",
                umap |-> uniq,
                logs |-> IF uniq THEN <<>>
                         ELSE <<[kind |-> "unmapped", co |-> co,
                                 head |-> line[1]]>>])

\* sam_info.__init__ (lines 76-86): the four calls in the order of the code
sam_info(line, f, co, n) ==
    LET sp == start_pos(line) IN
    IF sp.raised THEN sp ELSE
    LET qs == convert_phred(line) IN
    IF qs.raised THEN qs ELSE
    LET bc == bit_check(line, co) IN
    IF bc.raised THEN bc ELSE
    LET bg == barcode_get(line, f, co, n) IN
    Ok([line |-> line,
        start_pos |-> sp.val,
        qual_score |-> qs.val,
        strand |-> bc.val.strand,
        umap |-> bc.val.umap,
        BC |-> bg.BC,
        logs |-> bc.val.logs \o bg.logs,
        COUNT |-> bg.COUNT])

----------------------------------------------------------------------------
(* The input files                                                         *)

MaxLines == 3

\* a SAM record line of eleven fields; the newline ends the quality field
MkLine(name, flag, pos, cigar, qual) ==
    <<name, flag, <<"*">>, pos, <<"0">>, cigar, <<"*">>, <<"0">>, <<"0">>,
      <<"*">>, qual \o <<NL>>>>

\* the same record followed by one optional field
MkLineOpt(name, flag, pos, cigar, qual) ==
    <<name, flag, <<"*">>, pos, <<"0">>, cigar, <<"*">>, <<"0">>, <<"0">>,
      <<"*">>, qual, <<"N", NL>>>>

NameX == <<"x", ":", "A", "A", "A">>
NameY == <<"y", ":", "A", "A", "A">>
NameZ == <<"z", ":", "C", "C", "C">>
NameW == <<"w", ":", "A", "A">>
Cig10M == <<"1", "0", "M">>

RecA1 == MkLine(NameX, <<"0">>, <<"9">>, Cig10M, <<"I">>)
RecA2 == MkLine(NameY, <<"0">>, <<"9">>, Cig10M, <<"S">>)
RecA3 == MkLine(NameY, <<"0">>, <<"9">>, Cig10M, <<"I">>)
RecB1 == MkLine(NameZ, <<"0">>, <<"7">>, Cig10M, <<"+">>)
RecB2 == MkLine(NameZ, <<"1", "6">>, <<"8">>, <<"1", "S", "3", "M">>, <<"q">>)
RecE1 == MkLineOpt(NameX, <<"0">>, <<"9">>, Cig10M, <<>>)
RecU1 == MkLine(NameX, <<"4">>, <<"0">>, <<"*">>, <<"*">>)
RecU2 == MkLine(NameX, <<"4">>, <<"9">>, Cig10M, <<"I">>)
RecS1 == MkLine(NameZ, <<"2", "5", "6">>, <<"7">>, Cig10M, <<"q">>)
RecN1 == MkLine(NameW, <<"0">>, <<"9">>, Cig10M, <<"I">>)
RecM1 == <<NameX, <<"0">>, <<"*", NL>>>>
RecF1 == MkLine(NameX, <<"f">>, <<"9">>, Cig10M, <<"I">>)
Hdr1 == <<<<"@", "H", "D">>, <<"V", "N", NL>>>>

InputLines ==
    {RecA1, RecA2, RecA3, RecB1, RecB2, RecE1, RecU1, RecU2, RecS1, RecN1,
     RecM1, RecF1, Hdr1}

Files == UNION {[1..n -> InputLines] : n \in 0..MaxLines}

IdLengths == {3}

----------------------------------------------------------------------------
(* sort_sam (lines 213-220): samtools sort, an external tool                *)

Sortable(file) ==
    \A i \in 1..Len(file) :
        StartsWithAt(file[i]) \/ (Len(file[i]) >= 11 /\ IntOk(file[i][4])
                                   /\ IntOk(file[i][2]))

SortKey(line) == IF StartsWithAt(line) THEN -1 ELSE IntVal(line[4])

\* the outputs samtools sort may produce: the lines of the input, the header
\* first, the records in ascending order of leftmost mapping position
SortedOutputs(file) ==
    LET n == Len(file)
        Perms == {p \in [1..n -> 1..n] : \A i, j \in 1..n : i # j => p[i] # p[j]}
    IN {[i \in 1..n |-> file[p[i]]] : p \in
          {q \in Perms : \A i, j \in 1..n :
              i < j => SortKey(file[q[i]]) <= SortKey(file[q[j]])}}

----------------------------------------------------------------------------
(* rmdup.inter_sam (lines 165-196) and __main__ (lines 252-269)            *)

Init ==
    /\ sam \in Files
    /\ sortOpt \in BOOLEAN
    /\ ID \in IdLengths
    /\ lines = sam
    /\ pc = "main"
    /\ idx = 0
    /\ COUNT = 1
    /\ NR = 0
    /\ place = <<>>
    /\ bestScore = IntScore(0)
    /\ log = <<>>
    /\ classified = <<>>
    /\ output = <<>>
    /\ call = "none"
    /\ arg = <<>>
    /\ ret = <<>>

Unit == <<call, arg, ret>>

\* lines 260-262: --sort given and samtools succeeds; args.sam is rebound to
\* the sorted file, the global sam is not
SortSam ==
    /\ pc = "main" /\ sortOpt /\ Sortable(sam)
    /\ lines' \in SortedOutputs(sam)
    /\ pc' = "iter"
    /\ UNCHANGED <<sam, sortOpt, ID, idx, COUNT, NR, place, bestScore, log,
                   classified, output, Unit>>

\* lines 218-220: samtools fails; the error is logged and the run exits
SortFails ==
    /\ pc = "main" /\ sortOpt
    /\ log' = Append(log, [kind |-> "sort", co |-> COUNT, head |-> <<>>])
    /\ pc' = "exit1"
    /\ UNCHANGED <<sam, sortOpt, ID, lines, idx, COUNT, NR, place, bestScore,
                   classified, output, Unit>>

\* line 265: no --sort
NoSort ==
    /\ pc = "main" /\ ~sortOpt
    /\ pc' = "iter"
    /\ UNCHANGED <<sam, sortOpt, ID, lines, idx, COUNT, NR, place, bestScore,
                   log, classified, output, Unit>>

AtLine == pc = "iter" /\ idx < Len(lines)
CurLine == lines[idx + 1]
CurInfo == sam_info(CurLine, sam, COUNT, ID)

\* val (line 180)
KeyOf(info) == <<info.BC, info.start_pos, info.strand>>

\* val in place.keys()
InPlace(val) == \E k \in 1..Len(place) : place[k].key = val

\* line 182: strand[1] is None or BC is ""
Ignored(info) == ~info.umap \/ info.BC = <<>>

\* bestScore < line.qual_score raises TypeError when one side is None
LessRaises(info) == bestScore.isNone \/ info.qual_score.isNone
Less(info) == bestScore.n < info.qual_score.n

\* ReplaceLoop that deletes the key and inserts it again, at the end
ReplaceLoop_reinserts(val, line) ==
    IF Len(place) > 0 /\ place[1].key = val
    THEN Append(Tail(place), [key |-> val, line |-> line])
    ELSE place

\* lines 186-189: the loop looks at the first key of place only, then breaks
ReplaceLoop(val, line) ==
    IF Len(place) > 0 /\ place[1].key = val
    THEN [place EXCEPT ![1].line = line]
    ELSE place

\* the part of the loop body every classified record shares (lines 178-179)
Classified(info) ==
    /\ idx' = idx + 1
    /\ NR' = NR + 1
    /\ COUNT' = info.COUNT
    /\ log' = log \o info.logs
    /\ classified' = Append(classified, [at |-> idx + 1, info |-> info])
    /\ UNCHANGED <<sam, sortOpt, ID, lines, output, Unit>>

\* SkipHeader with the header line counted as a record by COUNT
SkipHeader_counted ==
    /\ AtLine /\ StartsWithAt(CurLine)
    /\ idx' = idx + 1
    /\ COUNT' = COUNT + 1
    /\ UNCHANGED <<sam, sortOpt, ID, lines, pc, NR, place, bestScore,
                   log, classified, output, Unit>>

\* line 177: a header line is not processed
SkipHeader ==
    /\ AtLine /\ StartsWithAt(CurLine)
    /\ idx' = idx + 1
    /\ UNCHANGED <<sam, sortOpt, ID, lines, pc, COUNT, NR, place, bestScore,
                   log, classified, output, Unit>>

\* line 178: sam_info(line) raises; nothing catches it and the run ends
\* with a traceback before anything is written
ClassifyRaises ==
    /\ AtLine /\ ~StartsWithAt(CurLine) /\ CurInfo.raised
    /\ idx' = idx + 1
    /\ pc' = "crashed"
    /\ UNCHANGED <<sam, sortOpt, ID, lines, COUNT, NR, place, bestScore, log,
                   classified, output, Unit>>

\* lines 182-183
Ignore ==
    /\ AtLine /\ ~StartsWithAt(CurLine) /\ ~CurInfo.raised
    /\ Ignored(CurInfo.val)
    /\ Classified(CurInfo.val)
    /\ UNCHANGED <<pc, place, bestScore>>

\* line 184: the comparison raises TypeError
CompareRaises ==
    /\ AtLine /\ ~StartsWithAt(CurLine) /\ ~CurInfo.raised
    /\ ~Ignored(CurInfo.val)
    /\ InPlace(KeyOf(CurInfo.val)) /\ LessRaises(CurInfo.val)
    /\ Classified(CurInfo.val)
    /\ pc' = "crashed"
    /\ UNCHANGED <<place, bestScore>>

\* lines 184-189
Replace ==
    /\ AtLine /\ ~StartsWithAt(CurLine) /\ ~CurInfo.raised
    /\ ~Ignored(CurInfo.val)
    /\ InPlace(KeyOf(CurInfo.val)) /\ ~LessRaises(CurInfo.val)
    /\ Less(CurInfo.val)
    /\ Classified(CurInfo.val)
    /\ place' = ReplaceLoop(KeyOf(CurInfo.val), CurLine)
    /\ UNCHANGED <<pc, bestScore>>

\* lines 190-193
Insert ==
    /\ AtLine /\ ~StartsWithAt(CurLine) /\ ~CurInfo.raised
    /\ ~Ignored(CurInfo.val)
    /\ ~InPlace(KeyOf(CurInfo.val))
    /\ Classified(CurInfo.val)
    /\ place' = Append(place, [key |-> KeyOf(CurInfo.val), line |-> CurLine])
    /\ bestScore' = CurInfo.val.qual_score
    /\ UNCHANGED pc

\* lines 194-195
Keep ==
    /\ AtLine /\ ~StartsWithAt(CurLine) /\ ~CurInfo.raised
    /\ ~Ignored(CurInfo.val)
    /\ InPlace(KeyOf(CurInfo.val)) /\ ~LessRaises(CurInfo.val)
    /\ ~Less(CurInfo.val)
    /\ Classified(CurInfo.val)
    /\ UNCHANGED <<pc, place, bestScore>>

\* lines 196, 267-269: end of input; every value of place is written
WriteDeduped ==
    /\ pc = "iter" /\ idx = Len(lines)
    /\ output' = [k \in 1..Len(place) |-> place[k].line]
    /\ pc' = "done"
    /\ UNCHANGED <<sam, sortOpt, ID, lines, idx, COUNT, NR, place, bestScore,
                   log, classified, Unit>>

Next ==
    \/ SortSam \/ SortFails \/ NoSort
    \/ SkipHeader \/ ClassifyRaises \/ Ignore \/ CompareRaises
    \/ Replace \/ Insert \/ Keep
    \/ WriteDeduped

Spec == Init /\ [][Next]_vars

----------------------------------------------------------------------------
(* Runs of exactly two duplicate records                                   *)

MaxQualLen == 3

QualChars == {"!", "+", "5", ":", "?", "I", "S", "q"}

QualStrings == UNION {[1..n -> QualChars] : n \in 0..MaxQualLen}

\* the sum of (code - 33) over every character of a quality string
RECURSIVE PhredSum(_)
PhredSum(q) ==
    IF Len(q) = 0 THEN 0 ELSE (Ord(q[1]) - 33) + PhredSum(Tail(q))

\* what stays fixed outside the run of inter_sam
Idle ==
    /\ idx = 0 /\ COUNT = 1 /\ NR = 0 /\ place = <<>>
    /\ bestScore = IntScore(0) /\ log = <<>> /\ classified = <<>>
    /\ output = <<>>

InitPair ==
    /\ \E q1, q2 \in QualStrings :
         /\ PhredSum(q1) = 50 /\ PhredSum(q2) = 80
         /\ sam = <<MkLine(NameX, <<"0">>, <<"9">>, Cig10M, q1),
                    MkLine(NameX, <<"0">>, <<"9">>, Cig10M, q2)>>
    /\ sortOpt = FALSE
    /\ ID \in IdLengths
    /\ lines = sam
    /\ pc = "main"
    /\ Idle
    /\ call = "none" /\ arg = <<>> /\ ret = <<>>

NextPair == NoSort \/ Replace \/ Insert \/ Keep \/ WriteDeduped

SpecPair == InitPair /\ [][NextPair]_vars

----------------------------------------------------------------------------
(* The methods of sam_info applied to one line                             *)

MaxCigarLen == 5
MaxNameLen == 5
MaxIdLen == 3
MaxFlagDigits == 3

CigarChars == {"0", "2", "5", "M", "S", "s", "*"}
CigarStrings == UNION {[1..n -> CigarChars] : n \in 0..MaxCigarLen}

NameChars == {"A", "C", "^", "x", ":"}
NameStrings == UNION {[1..n -> NameChars] : n \in 0..MaxNameLen}

FlagStrings == UNION {[1..n -> Digits] : n \in 1..MaxFlagDigits}

Pos100 == <<"1", "0", "0">>

InitCall(c, args) ==
    /\ call = c
    /\ arg \in args
    /\ ret = <<>>
    /\ sam = <<arg>>
    /\ lines = sam
    /\ sortOpt = FALSE
    /\ pc = "call"
    /\ Idle

Returns(r) ==
    /\ pc = "call"
    /\ ret' = r
    /\ pc' = "returned"
    /\ UNCHANGED <<sam, sortOpt, ID, lines, idx, NR, place, bestScore,
                   classified, output, call, arg>>

\* convert_phred on a line whose quality field is or is not the last field
InitPhred ==
    /\ InitCall("convert_phred",
           {MkLine(NameX, <<"0">>, <<"9">>, Cig10M, q) : q \in QualStrings}
           \cup {MkLineOpt(NameX, <<"0">>, <<"9">>, Cig10M, q) : q \in QualStrings})
    /\ ID \in IdLengths

CallConvertPhred ==
    /\ call = "convert_phred"
    /\ Returns(convert_phred(arg))
    /\ UNCHANGED <<COUNT, log>>

SpecPhred == InitPhred /\ [][CallConvertPhred]_vars

\* start_pos on a line at position 100 with any alignment descriptor
InitStartPos ==
    /\ InitCall("start_pos",
           {MkLine(NameX, <<"0">>, Pos100, c, <<"I">>) : c \in CigarStrings})
    /\ ID \in IdLengths

CallStartPos ==
    /\ call = "start_pos"
    /\ Returns(start_pos(arg))
    /\ UNCHANGED <<COUNT, log>>

SpecStartPos == InitStartPos /\ [][CallStartPos]_vars

\* barcode_get on the only line of a file, for every name and length
InitBarcode ==
    /\ InitCall("barcode_get",
           {MkLine(n, <<"0">>, <<"9">>, Cig10M, <<"I">>) : n \in NameStrings})
    /\ ID \in 1..MaxIdLen

CallBarcodeGet ==
    /\ call = "barcode_get"
    /\ LET r == barcode_get(arg, sam, COUNT, ID) IN
         /\ Returns(r)
         /\ COUNT' = r.COUNT
         /\ log' = log \o r.logs

SpecBarcode == InitBarcode /\ [][CallBarcodeGet]_vars

\* bit_check on a line with any flag
InitBitCheck ==
    /\ InitCall("bit_check",
           {MkLine(NameX, f, <<"9">>, Cig10M, <<"I">>) : f \in FlagStrings})
    /\ ID \in IdLengths

CallBitCheck ==
    /\ call = "bit_check"
    /\ LET r == bit_check(arg, COUNT) IN
         /\ Returns(r)
         /\ log' = IF r.raised THEN log ELSE log \o r.val.logs
         /\ UNCHANGED COUNT

SpecBitCheck == InitBitCheck /\ [][CallBitCheck]_vars

----------------------------------------------------------------------------
(* The vocabulary of the specification, stated without the code            *)

\* bit b (a power of two) of a non-negative integer
HasBit(n, b) == n % (2 * b) >= b

\* the quality string of a record line: field 10 without the line's newline
QualityOf(line) ==
    IF Len(line) = 11 /\ Len(line[11]) > 0 /\ line[11][Len(line[11])] = NL
    THEN SubSeq(line[11], 1, Len(line[11]) - 1)
    ELSE line[11]

\* the flag of a record line that has an integer flag field
HasFlag(line) == Len(line) >= 2 /\ IntOk(line[2])
NonUnique(line) ==
    HasFlag(line) /\ (HasBit(IntVal(line[2]), 4) \/ HasBit(IntVal(line[2]), 256))

\* too few fields, or a flag or position that is no integer
Malformed(line) ==
    ~StartsWithAt(line)
    /\ (Len(line) < 11 \/ ~IntOk(line[2]) \/ ~IntOk(line[4]))

\* the records classified so far that take part in deduplication
Seen == 1..Len(classified)
Eligible(c) == classified[c].info.umap /\ classified[c].info.BC # <<>>
Group(val) == {c \in Seen : Eligible(c) /\ KeyOf(classified[c].info) = val}
Score(c) == PhredSum(QualityOf(classified[c].info.line))

----------------------------------------------------------------------------
(* C1..C10                                                                 *)

\* C1: every key of the dedup table stores the line of an eligible record
\* whose quality score is the maximum over the eligible records seen so far
\* with that key (stated for the runs that read the input as given and
\* have not been ended by an exception).
C1_StoredLineHasMaxScore ==
    (~sortOpt /\ pc \in {"iter", "done"}) =>
        \A k \in 1..Len(place) :
            \E c \in Group(place[k].key) :
                /\ classified[c].info.line = place[k].line
                /\ \A d \in Group(place[k].key) : Score(d) <= Score(c)

\* C2: when the eligible records of a key all have the same quality score,
\* the line written for the key is the one encountered first (stated for the
\* runs that read the input as given).
C2_FirstSeenWinsOnTie ==
    (~sortOpt /\ pc = "done") =>
        \A k \in 1..Len(place) :
            LET g == Group(place[k].key)
                first == CHOOSE c \in g : \A d \in g : c <= d
            IN (g # {} /\ \A c, d \in g : Score(c) = Score(d))
                   => output[k] = classified[first].info.line

\* C3: a record with the unmapped or the secondary-alignment bit set leaves
\* the dedup table as it was, the run goes on to the next record, and no such
\* record is ever written.
C3_NonUniqueDroppedRunContinues ==
    /\ [][(AtLine /\ ~StartsWithAt(CurLine) /\ NonUnique(CurLine))
            => (place' = place /\ pc' = "iter" /\ idx' = idx + 1)]_vars
    /\ [](\A k \in 1..Len(output) : ~NonUnique(output[k]))

\* C4: two duplicates whose quality strings sum to 50 and 80, in that order:
\* the output is exactly the second record's line.
C4_SecondOfPairSurvives ==
    pc = "done" => output = <<sam[2]>>

\* C5: quality_score is the sum of (code - 33) over every character of the
\* quality string, an integer, 0 for the empty string.
C5_ScoreIsSumOverEveryCharacter ==
    (pc = "returned" /\ call = "convert_phred") =>
        /\ ~ret.raised
        /\ ~ret.val.isNone
        /\ ret.val.n = PhredSum(QualityOf(arg))

\* C6: adjusted_start is the position minus the length of a leading soft clip
\* of one or two digits, and the position itself when the first operation is
\* not a soft clip.
FirstOpIsMatch(c) ==
    \/ c = <<"*">>
    \/ \E n \in 1..(Len(c) - 1) :
          /\ \A i \in 1..n : c[i] \in Digits
          /\ c[n + 1] = "M"
LeadingClip(c, n) ==
    /\ Len(c) > n
    /\ \A i \in 1..n : c[i] \in Digits
    /\ c[n + 1] \in {"S", "s"}
C6_AdjustedStart ==
    (pc = "returned" /\ call = "start_pos") =>
        LET c == arg[6]
            pos == IntVal(arg[4])
        IN /\ \A n \in 1..2 : LeadingClip(c, n) =>
                  ~ret.raised /\ ret.val = pos - IntVal(SubSeq(c, 1, n))
           /\ FirstOpIsMatch(c) => ~ret.raised /\ ret.val = pos

\* C7: the molecule id is the single longest run of [ACGTN^-] of length >= L
\* in the name, and is absent when the name has no such run.
IsRun(s, i, j) ==
    /\ i <= j
    /\ \A m \in i..j : s[m] \in IdChars
    /\ (i = 1 \/ s[i - 1] \notin IdChars)
    /\ (j = Len(s) \/ s[j + 1] \notin IdChars)
QualifyingRuns(s, n) ==
    {r \in (1..Len(s)) \X (1..Len(s)) :
        IsRun(s, r[1], r[2]) /\ r[2] - r[1] + 1 >= n}
C7_IdIsLongestRun ==
    (pc = "returned" /\ call = "barcode_get") =>
        LET s == arg[1]
            q == QualifyingRuns(s, ID)
        IN IF q = {} THEN ret.BC = <<>>
           ELSE \E r \in q :
                   /\ \A t \in q : t[2] - t[1] <= r[2] - r[1]
                   /\ ret.BC = SubSeq(s, r[1], r[2])

\* C8: two classifications of the same line text give the same adjusted
\* start, quality score, strand, unique-mapping flag and molecule id.
C8_SameLineSameClassification ==
    \A c, d \in Seen :
        classified[c].info.line = classified[d].info.line =>
            /\ classified[c].info.start_pos = classified[d].info.start_pos
            /\ classified[c].info.qual_score = classified[d].info.qual_score
            /\ classified[c].info.strand = classified[d].info.strand
            /\ classified[c].info.umap = classified[d].info.umap
            /\ classified[c].info.BC = classified[d].info.BC

\* C9: a malformed record is skipped: the run is not ended by it, the dedup
\* table stays as it was and the next line is processed.
C9_MalformedSkipped ==
    [][(AtLine /\ Malformed(CurLine))
         => (pc' = "iter" /\ place' = place /\ idx' = idx + 1)]_vars

\* C10: for every integer flag, is_uniquely_mapped holds exactly when bits 4
\* and 256 are clear, strand is Reverse exactly when bit 16 is set, and the
\* call marks the record without raising.
C10_FlagDecoding ==
    (pc = "returned" /\ call = "bit_check") =>
        LET flag == IntVal(arg[2]) IN
        /\ ~ret.raised
        /\ ret.val.umap <=> (~HasBit(flag, 4) /\ ~HasBit(flag, 256))
        /\ ret.val.strand = (IF HasBit(flag, 16) THEN "-" ELSE "+")

C10_Witness ==
    /\ pc = "returned" /\ call = "bit_check"
    /\ HasBit(IntVal(arg[2]), 256) /\ ~HasBit(IntVal(arg[2]), 4)
    /\ HasBit(IntVal(arg[2]), 16)
    /\ ~ret.val.umap /\ ret.val.strand = "-"
    /\ Len(log) = 1

----------------------------------------------------------------------------
(* C11..C18                                                                *)

\* C11: a line beginning with '@' is skipped wherever it occurs: it is not
\* classified, the dedup table and the counters COUNT and NR stay as they
\* were, the run goes on, and no such line is ever written.
C11_HeaderSkipped ==
    /\ [][(AtLine /\ StartsWithAt(CurLine))
            => /\ place' = place /\ bestScore' = bestScore
               /\ COUNT' = COUNT /\ NR' = NR
               /\ classified' = classified /\ log' = log
               /\ pc' = "iter" /\ idx' = idx + 1]_vars
    /\ [](\A k \in 1..Len(output) : ~StartsWithAt(output[k]))
    /\ [](\A k \in 1..Len(place) : ~StartsWithAt(place[k].line))
    /\ [](pc \in {"iter", "done"} =>
             COUNT = 1 + Cardinality({i \in 1..idx : ~StartsWithAt(lines[i])}))

\* a header line in the middle of the stream has been skipped, the record
\* after it has been classified and inserted, and the output is written
C11_Witness ==
    /\ pc = "done" /\ Len(lines) = 3
    /\ ~StartsWithAt(lines[1]) /\ StartsWithAt(lines[2])
    /\ ~StartsWithAt(lines[3])
    /\ Len(output) = 2 /\ COUNT = 3 /\ NR = 2

\* C12: when an eligible record with key K and score S is processed while K
\* is in the table and S is greater than the score of the line stored for K,
\* the entry for K becomes this record's line, whatever other keys the table
\* holds (stated for the runs that read the input as given, at records whose
\* quality field is not empty).
C12_HigherScoreReplaces ==
    [][(/\ ~sortOpt /\ AtLine /\ ~StartsWithAt(CurLine) /\ ~CurInfo.raised
        /\ ~Ignored(CurInfo.val) /\ ~LessRaises(CurInfo.val)
        /\ \E k \in 1..Len(place) :
              /\ place[k].key = KeyOf(CurInfo.val)
              /\ PhredSum(QualityOf(CurLine))
                     > PhredSum(QualityOf(place[k].line)))
         => \E k \in 1..Len(place') :
               /\ place'[k].key = KeyOf(CurInfo.val)
               /\ place'[k].line = CurLine]_vars

\* the classification of a record from its own text alone: the specification's
\* molecule id, adjusted start, strand and validity of that record
OwnInfo(line) == sam_info(line, <<line>>, 1, ID).val
OwnEligible(line) == OwnInfo(line).umap /\ OwnInfo(line).BC # <<>>
SeenLine(c) == lines[classified[c].at]
OwnKeys == {KeyOf(OwnInfo(SeenLine(c))) : c \in {d \in Seen : OwnEligible(SeenLine(d))}}
TableKeys == {place[k].key : k \in 1..Len(place)}

\* C13: after every processed record the key set of the table is the set of
\* keys (molecule id, adjusted start, strand) of the eligible records seen so
\* far, one entry per key; the line stored under K is the text of an eligible
\* record whose own key is K; the output has one line per eligible key
\* (stated for the runs that have not been ended by an exception).
C13_TableIsEligibleKeys ==
    pc \in {"iter", "done"} =>
        /\ TableKeys = OwnKeys
        /\ Cardinality(TableKeys) = Len(place)
        /\ \A k \in 1..Len(place) :
              \E c \in Seen :
                  /\ SeenLine(c) = place[k].line
                  /\ OwnEligible(SeenLine(c))
                  /\ KeyOf(OwnInfo(SeenLine(c))) = place[k].key
        /\ pc = "done" => Len(output) = Cardinality(OwnKeys)

\* the name of a record line holds no run of [ACGTN^-] of length >= ID
NoIdInName(line) ==
    ~StartsWithAt(line) /\ Len(line) >= 1 /\ QualifyingRuns(line[1], ID) = {}

\* C14: a record in whose name no molecule id is found is classified but
\* neither inserts into nor replaces anything in the dedup table, leaves the
\* score later records are compared with as it was, is never written, and
\* the run goes on.
C14_NoIdExcluded ==
    /\ [][(AtLine /\ NoIdInName(CurLine))
            => /\ place' = place /\ bestScore' = bestScore
               /\ Len(classified') = Len(classified) + 1
               /\ pc' = "iter" /\ idx' = idx + 1]_vars
    /\ [](\A k \in 1..Len(output) : ~NoIdInName(output[k]))

\* C15: soft-clip resolution never fails: for every descriptor, also one
\* shorter than three characters or with a non-digit before an S, start_pos
\* returns, and returns the reference position when the descriptor does not
\* begin with a soft clip of one or two digits.
C15_SoftClipNeverFails ==
    (pc = "returned" /\ call = "start_pos") =>
        /\ ~ret.raised
        /\ (~LeadingClip(arg[6], 1) /\ ~LeadingClip(arg[6], 2))
               => ret.val = IntVal(arg[4])

\* the 1-based position of lines[at] among the non-header lines of the stream
Ordinal(at) == Cardinality({i \in 1..at : ~StartsWithAt(lines[i])})

Diagnostic(kind, c) ==
    [kind |-> kind, co |-> Ordinal(classified[c].at), head |-> SeenLine(c)[1]]

\* C16: every record dropped as unmapped/secondary or as having no molecule
\* id has a diagnostic with its own ordinal and its own name, and every
\* diagnostic of the run is the one of such a record.
C16_DroppedRecordsLogged ==
    /\ \A c \in Seen :
          /\ ~classified[c].info.umap =>
                 \E l \in 1..Len(log) : log[l] = Diagnostic("unmapped", c)
          /\ classified[c].info.BC = <<>> =>
                 \E l \in 1..Len(log) : log[l] = Diagnostic("noid", c)
    /\ \A l \in 1..Len(log) :
          /\ log[l].kind = "unmapped" =>
                 \E c \in Seen : /\ ~classified[c].info.umap
                                 /\ log[l] = Diagnostic("unmapped", c)
          /\ log[l].kind = "noid" =>
                 \E c \in Seen : /\ classified[c].info.BC = <<>>
                                 /\ log[l] = Diagnostic("noid", c)

\* after a header line, a secondary or unmapped record and a record without
\* an id have been dropped and logged with the ordinals 1 and 2
C16_Witness ==
    /\ pc = "done" /\ Len(lines) = 3 /\ StartsWithAt(lines[1])
    /\ output = <<>> /\ Len(log) = 2
    /\ log[1].kind = "unmapped" /\ log[1].co = 1 /\ log[1].head = lines[2][1]
    /\ log[2].kind = "noid" /\ log[2].co = 2 /\ log[2].head = lines[3][1]

\* C17: at every classification the id put into the record's key is extracted
\* from the name of that same record: COUNT is the record's ordinal among the
\* non-header lines of the iterated file, and the name at that ordinal of the
\* file the extractor reads is the record's name, with and without --sort.
C17_IdFromOwnName ==
    \A c \in Seen :
        LET co == classified[c].info.COUNT - 1 IN
        /\ co = Ordinal(classified[c].at)
        /\ co \in 1..Len(HeadNames(sam))
        /\ HeadNames(sam)[co] = SeenLine(c)[1]
        /\ classified[c].info.BC = OwnInfo(SeenLine(c)).BC

\* the first record classified with a key of the table
FirstOf(val) == CHOOSE c \in Group(val) : \A d \in Group(val) : c <= d

\* C18: the table, and the output written from it, hold the keys in the
\* order in which they were first inserted, that is in the stream order of
\* the first eligible record of each key; a replacement does not move a key.
C18_OutputInFirstInsertionOrder ==
    /\ \A k \in 1..Len(place) : Group(place[k].key) # {}
    /\ \A j, k \in 1..Len(place) :
          j < k => FirstOf(place[j].key) < FirstOf(place[k].key)
    /\ pc = "done" =>
          /\ Len(output) = Len(place)
          /\ \A k \in 1..Len(place) : output[k] = place[k].line

\* two keys were inserted, the line of the first was then replaced, and the
\* output still has the first key's line first
C18_Witness ==
    /\ pc = "done" /\ Len(output) = 2 /\ Len(classified) = 3
    /\ FirstOf(place[1].key) = 1 /\ FirstOf(place[2].key) = 2
    /\ output[1] = classified[3].info.line
    /\ output[1] # classified[1].info.line

====
